---- MODULE Spec2Model ----
(***************************************************************************)
(* Wavelet tree of terminus-store (src/structure/wavelettree.rs):          *)
(* streaming construction (build_wavelet_tree / build_wavelet_fragment)    *)
(* and the queries decode_one, lookup and WaveletSlice::len/entry/iter.    *)
(*                                                                         *)
(* Bit positions are 0-based as in the source; the TLA+ sequence holding   *)
(* the bits is 1-based, so bit g of the buffer is B[g+1].                  *)
(***************************************************************************)
EXTENDS Integers, Sequences, FiniteSets, TLC

\* ------------------------------------------------------------------ bounds
MaxWidth == 2      \* widest source log-array modelled by the build
MaxLen == 3        \* longest source sequence
MaxBits == 6       \* longest hand-supplied bit buffer given to from_parts
\* -------------------------------------------------------- program constants
WordBits == 64     \* bit width of u64 (and of usize on the modelled target)

VARIABLES
    source,          \* entries of the source log-array, in stream order
    width,           \* width stored in the log-array header / num_layers given to from_parts
    overflow_checks, \* build profile: TRUE = arithmetic overflow panics, FALSE = it wraps
    pc,              \* position of the build_wavelet_tree future chain
    num_layers,      \* value bound by the closure once the header was read
    alphabet_size,   \* 2_usize.pow(width) as computed by the build
    layer, fragment, \* the (layer, fragment) pass the fold is at
    bits,            \* bits pushed to BitArrayFileBuilder so far / content of the bit file
    finalized,       \* the builder's finalize() has completed
    index_started,   \* build_bitindex has opened the bit file for reading
    opens,           \* number of calls of logarray_stream_entries
    result,          \* what the build future resolved to
    tree,            \* the WaveletTree made by from_parts
    query            \* the last query and what it returned

vars == <<source, width, overflow_checks, pc, num_layers, alphabet_size, layer,
          fragment, bits, finalized, index_started, opens, result, tree, query>>

buildvars == <<pc, num_layers, alphabet_size, layer, fragment, bits, finalized,
               index_started, opens, result>>

\* ------------------------------------------------------- integer arithmetic
\* 2.pow(e) on a WordBits-wide unsigned integer: the exact value when it fits.
PowOverflows(e) == e >= WordBits

\* The value 2.pow(e) leaves when overflow wraps (2^e mod 2^WordBits).
Pow2(e) == IF e < WordBits THEN 2^e ELSE 0

\* ------------------------------------------------------------ collaborators
\* BitIndex::rank1 of the prefix B[0..i)
Rank1(B, i) == Cardinality({k \in 1..i : B[k]})

Rank1FromRange(B, a, b) == Rank1(B, b) - Rank1(B, a)

Rank0FromRange(B, a, b) == (b - a) - Rank1FromRange(B, a, b)

\* a rank over [a, b) is defined when the range is well formed and inside B
RangeOK(B, a, b) == a <= b /\ b <= Len(B)

None == -1

\* position of the r-th (1-indexed) bit equal to v, None when there is none
Select(B, v, r) ==
    LET hits == {p \in 0..(Len(B) - 1) :
                    /\ B[p + 1] = v
                    /\ Cardinality({k \in 1..(p + 1) : B[k] = v}) = r}
    IN IF r = 0 \/ hits = {} THEN None ELSE CHOOSE p \in hits : TRUE

SelectFromRange(B, v, r, a, b) ==
    LET before == Cardinality({k \in 1..a : B[k] = v})
        p == Select(B, v, r + before)
    IN IF p # None /\ p < b THEN p ELSE None

\* BitArrayFileBuilder::push_all restricted to one bit: append
Push(w, b) == Append(w, b)

\* ---------------------------------------------------- build_wavelet_fragment
\* stream.fold(write, ...) of build_wavelet_fragment: the symbols of the
\* fragment's alphabet interval push one bit each, the others push nothing.
\* a slip in the comparison against the middle of the interval
fragment_bit_strict(num, alphabet_mid) == num > alphabet_mid

\* the bit pushed for a symbol of the fragment (line 160)
fragment_bit(num, alphabet_mid) == num >= alphabet_mid

RECURSIVE FoldFragment(_, _, _, _, _)
FoldFragment(stream, w, alphabet_start, alphabet_end, alphabet_mid) ==
    IF stream = <<>> THEN w
    ELSE LET num == Head(stream)
             w2 == IF num >= alphabet_start /\ num < alphabet_end
                   THEN Push(w, fragment_bit(num, alphabet_mid))
                   ELSE w
         IN FoldFragment(Tail(stream), w2, alphabet_start, alphabet_end, alphabet_mid)

build_wavelet_fragment(stream, write, alphabet, lay, frag) ==
    LET step == alphabet \div Pow2(lay)
        alphabet_start == step * frag
        alphabet_end == step * (frag + 1)
        alphabet_mid == (alphabet_start + alphabet_end) \div 2
    IN FoldFragment(stream, write, alphabet_start, alphabet_end, alphabet_mid)

\* ------------------------------------------------------------- WaveletTree
NoTree == [state |-> "none", bits |-> <<>>, num_layers |-> 0]

\* WaveletTree::from_parts: both checks panic
from_parts(B, nl) ==
    IF nl = 0 THEN [state |-> "panic", bits |-> <<>>, num_layers |-> 0]
    ELSE IF Len(B) % nl # 0 THEN [state |-> "panic", bits |-> <<>>, num_layers |-> 0]
    ELSE [state |-> "tree", bits |-> B, num_layers |-> nl]

\* WaveletTree::len
tree_len(t) == Len(t.bits) \div t.num_layers

\* what a query is doing or has returned: the call, its outcome, and, while
\* decode_one runs, the locals of its loop and the bit index it last read
NoQuery ==
    [op |-> "none", arg |-> 0, kind |-> "none", value |-> 0, alphabet |-> 0,
     i |-> 0, offset |-> 0, alphabet_start |-> 0, alphabet_end |-> 0,
     range_start |-> 0, range_end |-> 0,
     read |-> [layer |-> -1, index |-> 0, range_start |-> 0, range_end |-> 0],
     slices |-> <<>>, items |-> <<>>]

\* decode_one leaves with `kind` (a value or a panic); its locals are dropped
DecodeResult(q, kind, value) ==
    [NoQuery EXCEPT !.op = "decode_one", !.arg = q.arg, !.kind = kind,
                    !.value = value, !.alphabet = q.alphabet, !.i = q.i,
                    !.read = q.read]

\* WaveletTree::decode_one, lines 81-86: the locals before the loop
decode_one(t, checks, index) ==
    LET q == [NoQuery EXCEPT !.op = "decode_one", !.arg = index]
    IN IF PowOverflows(t.num_layers) /\ checks
       THEN DecodeResult(q, "panic_overflow", 0)
       ELSE [q EXCEPT !.kind = "running",
                      !.offset = index,
                      !.alphabet_start = 0,
                      !.alphabet_end = Pow2(t.num_layers),
                      !.alphabet = Pow2(t.num_layers),
                      !.range_start = 0,
                      !.range_end = tree_len(t)]

\* the rank taken as the new offset without making it 0-based
decode_offset_rank(rank) == rank

\* the offset inside the child range: 0-based rank of the bit read (lines 98, 105)
decode_offset(rank) == rank - 1

\* WaveletTree::decode_one, lines 88-109: one iteration of the loop
decode_layer(t, checks, st) ==
    LET B == t.bits
        len == tree_len(t)
        index == st.i * len + st.range_start + st.offset
        q == [st EXCEPT !.read = [layer |-> st.i, index |-> index,
                                  range_start |-> st.range_start,
                                  range_end |-> st.range_end]]
    IN
    IF index >= Len(B)
    THEN DecodeResult(q, "panic_index", 0)
    ELSE
    LET bit == B[index + 1]
        range_start_index == st.i * len + st.range_start
        range_end_index == st.i * len + st.range_end
        rank == IF bit THEN Rank1FromRange(B, range_start_index, index + 1)
                       ELSE Rank0FromRange(B, range_start_index, index + 1)
        others == IF bit THEN Rank0FromRange(B, range_start_index, range_end_index)
                         ELSE Rank1FromRange(B, range_start_index, range_end_index)
    IN
    IF ~RangeOK(B, range_start_index, index + 1) \/ ~RangeOK(B, range_start_index, range_end_index)
    THEN DecodeResult(q, "panic_rank", 0)
    ELSE IF rank = 0 \/ (~bit /\ others > st.range_end)
    THEN DecodeResult(q, IF checks THEN "panic_overflow" ELSE "wrapped", 0)
    ELSE IF bit
    THEN [q EXCEPT !.alphabet_start = (st.alphabet_start + st.alphabet_end) \div 2,
                   !.offset = decode_offset(rank),
                   !.range_start = st.range_start + others,
                   !.i = st.i + 1]
    ELSE [q EXCEPT !.alphabet_end = (st.alphabet_start + st.alphabet_end) \div 2,
                   !.offset = decode_offset(rank),
                   !.range_end = st.range_end - others,
                   !.i = st.i + 1]

\* WaveletTree::decode_one, lines 112-114: the assertion and the return
decode_return(checks, st) ==
    IF st.alphabet_end = 0
    THEN DecodeResult(st, IF checks THEN "panic_overflow" ELSE "panic_assert", 0)
    ELSE IF st.alphabet_start = st.alphabet_end - 1
    THEN DecodeResult(st, "ok", st.alphabet_start)
    ELSE DecodeResult(st, "panic_assert", 0)

LookupResult(entry, alphabet, kind, slices) ==
    [NoQuery EXCEPT !.op = "lookup", !.arg = entry, !.kind = kind,
                    !.alphabet = alphabet, !.slices = slices]

\* the emptiness test left out
lookup_empty_never(start_index, end_index) == FALSE

\* the range of the symbol's prefix has become empty (line 138)
lookup_empty(start_index, end_index) == start_index = end_index

\* the loop of lookup from layer i on
RECURSIVE lookup_layers(_, _, _, _)
lookup_layers(t, entry, i, st) ==
    IF i = t.num_layers THEN LookupResult(entry, st.alphabet, "slice", st.slices)
    ELSE
    LET B == t.bits
        w == tree_len(t)
        full_start_index == i * w + st.start_index
        full_end_index == i * w + st.end_index
        b == entry >= (st.alphabet_start + st.alphabet_end) \div 2
        slices == Append(st.slices, <<b, full_start_index, full_end_index>>)
        st2 == IF b
               THEN [st EXCEPT !.alphabet_start = st.alphabet_start + Pow2(t.num_layers - i - 1),
                               !.start_index = st.start_index
                                    + Rank0FromRange(B, full_start_index, full_end_index),
                               !.slices = slices]
               ELSE [st EXCEPT !.alphabet_end = st.alphabet_end - Pow2(t.num_layers - i - 1),
                               !.end_index = st.end_index
                                    - Rank1FromRange(B, full_start_index, full_end_index),
                               !.slices = slices]
    IN IF lookup_empty(st2.start_index, st2.end_index)
       THEN LookupResult(entry, st.alphabet, "absent", <<>>)
       ELSE lookup_layers(t, entry, i + 1, st2)

\* WaveletTree::lookup
lookup(t, checks, entry) ==
    IF PowOverflows(t.num_layers) /\ checks
    THEN LookupResult(entry, 0, "panic_overflow", <<>>)
    ELSE lookup_layers(t, entry, 0,
            [alphabet_start |-> 0, alphabet_end |-> Pow2(t.num_layers),
             alphabet |-> Pow2(t.num_layers),
             start_index |-> 0, end_index |-> tree_len(t), slices |-> <<>>])

\* ------------------------------------------------------------ WaveletSlice
\* WaveletSlice::len
slice_len(B, slices) ==
    LET last == slices[Len(slices)]
    IN IF last[1] THEN Rank1FromRange(B, last[2], last[3])
                  ELSE Rank0FromRange(B, last[2], last[3])

\* the position inside the range left 0-based
entry_next_zero_based(sel, start_index) == sel - start_index

\* the 1-based rank handed to the layer above (lines 41, 44)
entry_next(sel, start_index) == sel - start_index + 1

\* the loop of WaveletSlice::entry over slices[1..k] in reverse; None stands
\* for the panic of unwrap() on an absent select
RECURSIVE entry_layers(_, _, _, _)
entry_layers(B, slices, k, res) ==
    IF k = 0 THEN res
    ELSE LET sel == SelectFromRange(B, slices[k][1], res, slices[k][2], slices[k][3])
         IN IF sel = None THEN None
            ELSE entry_layers(B, slices, k - 1, entry_next(sel, slices[k][2]))

\* WaveletSlice::entry
slice_entry(B, slices, index) ==
    IF index >= slice_len(B, slices) THEN None
    ELSE LET res == entry_layers(B, slices, Len(slices), index + 1)
         IN IF res = None THEN None ELSE res - 1

\* WaveletSlice::iter, collected
slice_iter(B, slices) ==
    [k \in 1..slice_len(B, slices) |-> slice_entry(B, slices, k - 1)]

\* ------------------------------------------------------------------ inputs
Symbols(w) == 0..(2^w - 1)

Sources(w) == UNION {[1..n -> Symbols(w)] : n \in 0..MaxLen}

BitBuffers == UNION {[1..n -> BOOLEAN] : n \in 0..MaxBits}

\* buffers of one symbol and WordBits layers: all ones, all zeros, periodic
WideBuffers == {[k \in 1..WordBits |-> (k % p) = 0] : p \in (1..MaxBits) \cup {WordBits + 1}}

\* -------------------------------------------------------------------- Init
\* build_wavelet_tree has been called on a source log-array: the builder is
\* created on destination_bits.open_write() and nothing has been polled.
Init ==
    /\ width \in 1..MaxWidth
    /\ source \in Sources(width)
    /\ overflow_checks \in BOOLEAN
    /\ pc = "header"
    /\ num_layers = 0
    /\ alphabet_size = 0
    /\ layer = 0
    /\ fragment = 0
    /\ bits = <<>>
    /\ finalized = FALSE
    /\ index_started = FALSE
    /\ opens = 0
    /\ result = "pending"
    /\ tree = NoTree
    /\ query = NoQuery

\* a caller holds bit files of any origin and a num_layers of its choice
InitParts ==
    /\ \/ width \in 0..MaxWidth /\ bits \in BitBuffers
       \/ width = WordBits /\ bits \in WideBuffers
    /\ source = <<>>
    /\ overflow_checks \in BOOLEAN
    /\ pc = "loaded"
    /\ num_layers = 0
    /\ alphabet_size = 0
    /\ layer = 0
    /\ fragment = 0
    /\ finalized = TRUE
    /\ index_started = TRUE
    /\ opens = 0
    /\ result = "ok"
    /\ tree = NoTree
    /\ query = NoQuery

\* ------------------------------------------------------ build_wavelet_tree
\* logarray_file_get_length_and_width(&source).map(...): resolves to
\* (num_layers, alphabet_size) or to the I/O error of the read
ReadHeader ==
    /\ pc = "header"
    /\ \/ IF PowOverflows(width) /\ overflow_checks
          THEN /\ pc' = "failed"
               /\ result' = "panic_overflow"
               /\ UNCHANGED <<num_layers, alphabet_size>>
          ELSE /\ num_layers' = width
               /\ alphabet_size' = Pow2(width)
               /\ pc' = IF width = 0 THEN "finalize" ELSE "passes"
               /\ result' = result
       \/ /\ pc' = "failed"
          /\ result' = "err_header"
          /\ UNCHANGED <<num_layers, alphabet_size>>
    /\ UNCHANGED <<source, width, overflow_checks, layer, fragment, bits,
                   finalized, index_started, opens, tree, query>>

\* one pass per layer instead of one per fragment
fragments_single(lay) == 1

\* the fragments of a layer: (0..2_usize.pow(layer)) (line 176)
fragments_in_layer(lay) == Pow2(lay)

\* one turn of the fold over the (layer, fragment) pairs: open the entry
\* stream and run build_wavelet_fragment over it; a read or a push that
\* fails after k entries ends the fold with that error
FragmentPass ==
    /\ pc = "passes"
    /\ opens' = opens + 1
    /\ \/ /\ bits' = build_wavelet_fragment(source, bits, alphabet_size, layer, fragment)
          /\ IF fragment + 1 < fragments_in_layer(layer)
             THEN /\ fragment' = fragment + 1
                  /\ UNCHANGED <<layer, pc>>
             ELSE /\ fragment' = 0
                  /\ layer' = layer + 1
                  /\ pc' = IF layer + 1 < num_layers THEN "passes" ELSE "finalize"
          /\ result' = result
       \/ \E k \in 0..Len(source) :
          /\ bits' = build_wavelet_fragment(SubSeq(source, 1, k), bits,
                                            alphabet_size, layer, fragment)
          /\ pc' = "failed"
          /\ result' = "err_pass"
          /\ UNCHANGED <<layer, fragment>>
    /\ UNCHANGED <<source, width, overflow_checks, num_layers, alphabet_size,
                   finalized, index_started, tree, query>>

\* .and_then(|b| b.finalize())
Finalize ==
    /\ pc = "finalize"
    /\ \/ /\ finalized' = TRUE
          /\ pc' = "index"
          /\ result' = result
       \/ /\ pc' = "failed"
          /\ result' = "err_finalize"
          /\ UNCHANGED finalized
    /\ UNCHANGED <<source, width, overflow_checks, num_layers, alphabet_size,
                   layer, fragment, bits, index_started, opens, tree, query>>

\* the index build started without waiting for the passes and finalize()
BuildIndexEarly ==
    /\ pc \in {"passes", "finalize", "index"}
    /\ index_started' = TRUE
    /\ \/ /\ pc' = "done"
          /\ result' = "ok"
       \/ /\ pc' = "failed"
          /\ result' = "err_index"
    /\ UNCHANGED <<source, width, overflow_checks, num_layers, alphabet_size,
                   layer, fragment, bits, finalized, opens, tree, query>>

\* .and_then(move |_| build_bitindex(destination_bits.open_read(), ...)).map(|_|())
BuildIndex ==
    /\ pc = "index"
    /\ index_started' = TRUE
    /\ \/ /\ pc' = "done"
          /\ result' = "ok"
       \/ /\ pc' = "failed"
          /\ result' = "err_index"
    /\ UNCHANGED <<source, width, overflow_checks, num_layers, alphabet_size,
                   layer, fragment, bits, finalized, opens, tree, query>>

\* ----------------------------------------------------------------- queries
\* the caller maps the three files and wraps them with from_parts(index, width)
FromParts ==
    /\ pc \in {"done", "loaded"}
    /\ tree.state = "none"
    /\ tree' = from_parts(bits, width)
    /\ UNCHANGED <<source, width, overflow_checks, buildvars, query>>

\* a caller makes one query; queries leave the tree as it is, so what one
\* query returns does not depend on the queries made before it
DecodeOne ==
    /\ tree.state = "tree"
    /\ query.op = "none"
    /\ \E index \in 0..Len(tree.bits) :
          query' = decode_one(tree, overflow_checks, index)
    /\ UNCHANGED <<source, width, overflow_checks, buildvars, tree>>

DecodeLayer ==
    /\ query.op = "decode_one"
    /\ query.kind = "running"
    /\ query.i < tree.num_layers
    /\ query' = decode_layer(tree, overflow_checks, query)
    /\ UNCHANGED <<source, width, overflow_checks, buildvars, tree>>

DecodeReturn ==
    /\ query.op = "decode_one"
    /\ query.kind = "running"
    /\ query.i = tree.num_layers
    /\ query' = decode_return(overflow_checks, query)
    /\ UNCHANGED <<source, width, overflow_checks, buildvars, tree>>

Lookup ==
    /\ tree.state = "tree"
    /\ query.op = "none"
    /\ \E entry \in 0..(Pow2(tree.num_layers) + 1) :
          query' = lookup(tree, overflow_checks, entry)
    /\ UNCHANGED <<source, width, overflow_checks, buildvars, tree>>

\* slice.iter().collect() on the slice the last lookup returned
Iter ==
    /\ query.op = "lookup"
    /\ query.kind = "slice"
    /\ query' = [query EXCEPT !.op = "iter",
                              !.value = slice_len(tree.bits, query.slices),
                              !.items = slice_iter(tree.bits, query.slices)]
    /\ UNCHANGED <<source, width, overflow_checks, buildvars, tree>>

Next ==
    \/ ReadHeader
    \/ FragmentPass
    \/ Finalize
    \/ BuildIndex
    \/ FromParts
    \/ DecodeOne
    \/ DecodeLayer
    \/ DecodeReturn
    \/ Lookup
    \/ Iter

Spec == Init /\ [][Next]_vars

NextParts ==
    \/ FromParts
    \/ DecodeOne
    \/ DecodeLayer
    \/ DecodeReturn

SpecParts == InitParts /\ [][NextParts]_vars

\* ------------------------------------------------------------------ claims
Built == pc = "done" /\ tree.state = "tree"

\* the 0-based positions at which symbol v occurs in the source
Occurrences(v) == {j \in 0..(Len(source) - 1) : source[j + 1] = v}

Returned(op) == query.op = op /\ query.kind # "running"

\* C1: decode round trip. The tree built from the source and wrapped with
\* from_parts(index, width) has as many symbols as the source, and
\* decode_one(i) on it returns source[i] for every i below that length.
C1_DecodeRoundTrip ==
    Built =>
        /\ tree_len(tree) = Len(source)
        /\ (Returned("decode_one") /\ query.arg < Len(source)) =>
              /\ query.kind = "ok"
              /\ query.value = source[query.arg + 1]

C1_Witness ==
    /\ Built
    /\ width >= 2
    /\ Len(source) >= 2
    /\ source[1] # source[2]
    /\ query.op = "decode_one" /\ query.kind = "ok"
    /\ query.arg = 1 /\ query.value = source[2] /\ query.value >= 2

\* C2: occurrence lookup. For a symbol of the alphabet that occurs in the
\* source, lookup returns a slice; its len() is the number of occurrences and
\* its iter() yields the positions of the occurrences in increasing order.
C2_LookupOccurrences ==
    (Built /\ query.op \in {"lookup", "iter"}
           /\ query.arg < 2^width /\ Occurrences(query.arg) # {}) =>
        /\ query.kind = "slice"
        /\ query.op = "iter" =>
              /\ query.value = Cardinality(Occurrences(query.arg))
              /\ Len(query.items) = query.value
              /\ {query.items[k] : k \in 1..Len(query.items)} = Occurrences(query.arg)
              /\ \A k \in 1..(Len(query.items) - 1) : query.items[k] < query.items[k + 1]

C2_Witness ==
    /\ Built
    /\ width >= 2
    /\ query.op = "iter"
    /\ Len(query.items) >= 2
    /\ query.items[1] > 0
    /\ Len(query.items) < Len(source)

\* C3: absent on zero occurrences. For a symbol of the alphabet that does not
\* occur in the source (the empty source included), lookup returns absent,
\* never a slice.
C3_AbsentWhenMissing ==
    (Built /\ query.op \in {"lookup", "iter"}
           /\ query.arg < 2^width /\ Occurrences(query.arg) = {}) =>
        query.op = "lookup" /\ query.kind = "absent"

C3_Witness ==
    /\ Built
    /\ width >= 2
    /\ Len(source) >= 2
    /\ query.op = "lookup" /\ query.kind = "absent"
    /\ query.arg < 2^width
    /\ \E j \in 1..Len(source) : source[j] \div 2 = query.arg \div 2

\* C4: absent outside the alphabet. For a symbol v >= 2^width, lookup returns
\* absent whatever the source contains.
C4_AbsentOutsideAlphabet ==
    (Built /\ query.op \in {"lookup", "iter"} /\ query.arg >= 2^width) =>
        query.op = "lookup" /\ query.kind = "absent"

\* C5: out-of-range access aborts. decode_one(i) with i at or beyond the
\* number of symbols panics and never returns a symbol.
C5_OutOfRangeAborts ==
    (Built /\ query.op = "decode_one" /\ query.arg >= tree_len(tree)) =>
        query.kind # "ok"

\* v = 2^w, tested by halving so that the exact power is never computed
RECURSIVE IsExactPow2(_, _)
IsExactPow2(v, w) ==
    IF w = 0 THEN v = 1
    ELSE v > 0 /\ v % 2 = 0 /\ IsExactPow2(v \div 2, w - 1)

\* C6: full width range. For every width up to and including WordBits the
\* alphabet size computed by the build, by decode_one and by lookup is
\* exactly 2^width: no overflow panic and no wrap-around.
C6_FullWidthRange ==
    /\ num_layers # 0 => IsExactPow2(alphabet_size, num_layers)
    /\ result # "panic_overflow"
    /\ query.op \in {"decode_one", "lookup", "iter"} =>
          /\ query.kind # "panic_overflow"
          /\ IsExactPow2(query.alphabet, tree.num_layers)

AllErrors == {"err_header", "err_pass", "err_finalize", "err_index", "panic_overflow"}

\* C7: finalize before index. The bit buffer is finalized only after every
\* (layer, fragment) pass has completed; the index build starts only after
\* finalization; when the header read, a pass or the finalization fails the
\* index build never starts and the build resolves to that error.
C7_FinalizeBeforeIndex ==
    /\ finalized => /\ pc \in {"index", "done", "failed"}
                    /\ layer = num_layers /\ num_layers = width
                    /\ Len(bits) = Len(source) * width
    /\ index_started => finalized
    /\ result \in {"err_header", "err_pass", "err_finalize"} =>
          ~index_started /\ pc = "failed"
    /\ result = "err_pass" => ~finalized
    /\ pc = "failed" <=> result \in AllErrors
    /\ pc = "done" <=> result = "ok"
    /\ result = "ok" => index_started

C7_Witness ==
    /\ pc = "done"
    /\ result = "ok"
    /\ finalized /\ index_started
    /\ Len(bits) >= 4

\* the top L bits of symbol x: the number of its fragment at layer L
Prefix(x, L) == x \div 2^(width - L)

\* bit L of symbol x, counted from the most significant of its width bits
BitAt(x, L) == (x \div 2^(width - L - 1)) % 2 = 1

\* where the bit of source entry j (1-based) lies in the row of layer L:
\* after the entries of earlier fragments and the earlier entries of its own
RowPos(j, L) ==
    Cardinality({k \in 1..Len(source) : Prefix(source[k], L) < Prefix(source[j], L)})
    + Cardinality({k \in 1..(j - 1) : Prefix(source[k], L) = Prefix(source[j], L)})

\* C8: construction bit order. The bits pushed are, layer by layer and
\* fragment by fragment, the bits (x >= mid) of the symbols of the fragment
\* in stream order; every completed layer L holds one bit per source symbol
\* at positions [L*n, (L+1)*n), and the finished buffer has n*width bits.
C8_BitOrder ==
    pc \in {"passes", "finalize", "index", "done"} =>
        LET n == Len(source) IN
        /\ Len(bits) = layer * n
              + Cardinality({k \in 1..n : layer < width /\ Prefix(source[k], layer) < fragment})
        /\ pc # "passes" => Len(bits) = n * width
        /\ \A L \in 0..(width - 1) : \A j \in 1..n :
              (L < layer \/ (L = layer /\ Prefix(source[j], L) < fragment)) =>
                  bits[L * n + RowPos(j, L) + 1] = BitAt(source[j], L)

C8_Witness ==
    /\ pc = "done"
    /\ width >= 2
    /\ Len(source) >= 3
    /\ Prefix(source[1], 1) > Prefix(source[2], 1)
    /\ source[3] = source[1] + 1
    /\ Len(bits) = Len(source) * width

\* C9 as stated: in a completed run the entry stream was opened exactly
\* width times, once per layer.
C9_OpensOncePerLayer ==
    pc \in {"finalize", "index", "done"} => opens = width

\* C9 amended: the entry stream is opened once per (layer, fragment) pass:
\* 2^layer - 1 + fragment times when the fold is at (layer, fragment), and
\* 2^width - 1 times in total in a run whose passes all completed.
C9_OpensOncePerFragment ==
    /\ pc = "passes" => opens = 2^layer - 1 + fragment
    /\ pc \in {"finalize", "index", "done"} => opens = 2^width - 1
    /\ opens <= 2^width - 1

C9_Witness ==
    /\ pc = "done"
    /\ width >= 2
    /\ opens > width
    /\ Len(source) >= 1

\* C10: access stays inside its range. On every tree accepted by from_parts
\* and every index below its length, decode_one reads at each layer L a bit
\* index g with L*n + range_start <= g < L*n + range_end <= (L+1)*n, and it
\* ends in no panic: it returns with alphabet_start = alphabet_end - 1.
C10_AccessInsideRange ==
    (tree.state = "tree" /\ query.op = "decode_one" /\ query.arg < tree_len(tree)) =>
        LET n == tree_len(tree)
            r == query.read
        IN /\ query.kind \in {"running", "ok"}
           /\ r.layer >= 0 =>
                 /\ r.layer * n + r.range_start <= r.index
                 /\ r.index < r.layer * n + r.range_end
                 /\ r.layer * n + r.range_end <= (r.layer + 1) * n

\* The ranges of C10 on the trees whose alphabet size fits the word: every
\* read lies inside its layer's range and decode_one ends in no panic.
C10_InsideRangeBelowWordBits ==
    (tree.state = "tree" /\ ~PowOverflows(tree.num_layers)
        /\ query.op = "decode_one" /\ query.arg < tree_len(tree)) =>
        LET n == tree_len(tree)
            r == query.read
        IN /\ query.kind \in {"running", "ok"}
           /\ r.layer >= 0 =>
                 /\ r.layer * n + r.range_start <= r.index
                 /\ r.index < r.layer * n + r.range_end
                 /\ r.layer * n + r.range_end <= (r.layer + 1) * n

====
